---- MODULE Spec2Model ----
(***************************************************************************)
(* A model of the QA4SM reader (qa4smreader/ncplot.py, globals.py and      *)
(* qa4sm_reader/plot.py): decoding of NetCDF variable names into metadata  *)
(* records, the batch resolver, the metric listing and the plot drivers.   *)
(*                                                                         *)
(* Python str values are TLA+ strings (Len, SubSeq and \o act on them),    *)
(* Python lists are sequences, dicts are functions together with their     *)
(* insertion order, and a call either returns a value or raises.           *)
(***************************************************************************)
EXTENDS Integers, Sequences, FiniteSets, TLC

VARIABLES
    ds,     \* the opened dataset: [data_vars : list of names, attrs : dict]
    pc,     \* where the running call stands ("idle" before any call)
    call,   \* the call made: its name and its arguments
    ret,    \* what the call returned or raised
    warned, \* the warnings raised so far, in order
    figs,   \* pyplot's open figures, the current figure last
    nfig,   \* number of figures created so far
    log,    \* the savefig and close events so far, in order
    loc     \* plot_all's local variables

vars == <<ds, pc, call, ret, warned, figs, nfig, log, loc>>

-----------------------------------------------------------------------------
(* Bounds of the model.                                                    *)

\* longest list of variable names the dataset holds besides its index fields
MaxVars == 2
\* longest list of variable names passed to _get_varmeta
MaxReq == 2

-----------------------------------------------------------------------------
(* Python values.                                                          *)

\* stands for Python's None where a str is expected; no str of the model equals it
PyNone == "<None>"

Raise(exc, msg, arg) == [kind |-> "raise", exc |-> exc, msg |-> msg, arg |-> arg]

Return(v) == [kind |-> "return", value |-> v]

\* "x = v" followed by the statements F that use x
With(v, F(_)) == F(v)

\* "x = call" followed by the statements F that use x: an exception the call
\* raises leaves the block, and F is not reached
Then(r, F(_)) == IF r.kind = "raise" THEN r ELSE F(r.value)

\* "try: x = call; except KeyError: x = default"
ExceptKeyError(r, default) ==
    IF r.kind = "raise" /\ r.exc = "KeyError" THEN Return(default) ELSE r

Max(S) == CHOOSE x \in S : \A y \in S : y <= x

Range(s) == {s[i] : i \in 1..Len(s)}

\* list.remove(x): drops the first occurrence; the caller handles ValueError
ListRemove(s, x) ==
    LET i == CHOOSE k \in 1..Len(s) : s[k] = x /\ \A j \in 1..(k-1) : s[j] # x
    IN  SubSeq(s, 1, i-1) \o SubSeq(s, i+1, Len(s))

\* the i-th character of a str
Char(s, i) == SubSeq(s, i, i)

Digits == {"0", "1", "2", "3", "4", "5", "6", "7", "8", "9"}

\* \d and \D of the regex
IsDigit(c) == c \in Digits

\* \s and \S of the regex
IsSpace(c) == c \in {" ", "\t"}

DigitVal(c) == CHOOSE i \in 0..9 : ToString(i) = c

\* int(s) for a str of decimal digits
RECURSIVE int(_)
int(s) ==
    IF Len(s) = 0 THEN 0
    ELSE 10 * int(SubSeq(s, 1, Len(s) - 1)) + DigitVal(Char(s, Len(s)))

\* str(n) for an integer
str(n) == ToString(n)

-----------------------------------------------------------------------------
(* globals.py: the names the module defines.  An attribute access          *)
(* globals.<name> on any other name raises AttributeError.                 *)

globals_dir ==
    {"ccrs", "_metric_value_ranges", "_metric_description", "_cclasses",
     "_colormaps", "_metric_units", "_metric_name", "matplotlib_ppi",
     "index_names", "dpi", "max_title_len", "title_pad", "data_crs",
     "scattered_datasets", "map_figsize", "naturalearth_resolution", "crs",
     "markersize", "map_pad", "grid_intervals", "boxplot_printnumbers",
     "boxplot_figsize", "watermark", "watermark_pos", "watermark_fontsize",
     "watermark_pad", "usecases"}

index_names == <<"lat", "lon">>

scattered_datasets == <<"ISMN">>

\* the dict-valued names of globals.py that are keyed by dataset short name;
\* globals.<table>[key] is looked up in them when <table> is defined
globals_tables ==
    [_metric_units |->
        [k \in {"ISMN", "C3S", "GLDAS", "ASCAT", "SMAP", "ERA5"} |->
            IF k = "ASCAT" THEN "percentage of saturation" ELSE "m^3 m^{-3}"]]

\* globals.<table>[key]
globals_lookup(table, key) ==
    IF table \notin globals_dir
    THEN Raise("AttributeError", "module has no attribute", table)
    ELSE IF table \notin DOMAIN globals_tables \/ key \notin DOMAIN globals_tables[table]
    THEN Raise("KeyError", "", key)
    ELSE Return(globals_tables[table][key])

-----------------------------------------------------------------------------
(* The regular expression of _get_meta,                                    *)
(*   (\D+)_between_(\d+)-(\S+)_(\d+)-(?P<dataset>\S+)                      *)
(* applied with pattern.match: anchored at the start of the name, not at   *)
(* its end; every group is greedy and gives characters back only when the  *)
(* rest of the pattern fails (the first match in backtracking order is the *)
(* one with the longest group 1, then the longest group 2, and so on).     *)

AllDigits(s, a, b) == \A i \in a..b : IsDigit(Char(s, i))

NoDigits(s, a, b) == \A i \in a..b : ~IsDigit(Char(s, i))

NoSpaces(s, a, b) == \A i \in a..b : ~IsSpace(Char(s, i))

LitAt(s, p, lit) ==
    /\ p >= 1
    /\ p + Len(lit) - 1 <= Len(s)
    /\ SubSeq(s, p, p + Len(lit) - 1) = lit

\* sub occurs in s: s.find(sub) != -1
Contains(s, sub) == \E i \in 1..(Len(s) - Len(sub) + 1) : LitAt(s, i, sub)

\* ends of group 5, (\S+), when it starts at p: nothing follows it
Ends5(s, p) == {e \in p..Len(s) : NoSpaces(s, p, e)}

\* ends of group 4, (\d+), starting at p, such that -(\S+) matches after it
Ends4(s, p) ==
    {e \in p..Len(s) : LitAt(s, e+1, "-") /\ AllDigits(s, p, e) /\ Ends5(s, e+2) # {}}

\* ends of group 3, (\S+), starting at p, such that _(\d+)-(\S+) matches after it
Ends3(s, p) ==
    {e \in p..Len(s) : LitAt(s, e+1, "_") /\ NoSpaces(s, p, e) /\ Ends4(s, e+2) # {}}

\* ends of group 2, (\d+), starting at p, such that -(\S+)_(\d+)-(\S+) matches after it
Ends2(s, p) ==
    {e \in p..Len(s) : LitAt(s, e+1, "-") /\ AllDigits(s, p, e) /\ Ends3(s, e+2) # {}}

\* ends of group 1, (\D+), such that the rest of the pattern matches after it
Ends1(s) ==
    {e \in 1..Len(s) : LitAt(s, e+1, "_between_") /\ NoDigits(s, 1, e) /\ Ends2(s, e+10) # {}}

\* pattern.match(var) is not None
Matches(var) == Ends1(var) # {}

\* the five groups of pattern.match(var), for a name that matches
Groups(var) ==
    With(Max(Ends1(var)), LAMBDA e1 :
    With(Max(Ends2(var, e1 + 10)), LAMBDA e2 :
    With(Max(Ends3(var, e2 + 2)), LAMBDA e3 :
    With(Max(Ends4(var, e3 + 2)), LAMBDA e4 :
    With(Max(Ends5(var, e4 + 2)), LAMBDA e5 :
        <<SubSeq(var, 1, e1),
          SubSeq(var, e1 + 10, e2),
          SubSeq(var, e2 + 2, e3),
          SubSeq(var, e3 + 2, e4),
          SubSeq(var, e4 + 2, e5)>>)))))

-----------------------------------------------------------------------------
(* ncplot._get_meta and its helper.                                        *)

\* key in dict
HasKey(d, k) == k \in DOMAIN d

\* _get_pretty_name, first try block: the pretty name of a dataset
PrettyNameOf(attrs, name, number) ==
    With("val_dc_pretty_name" \o str(number - 1), LAMBDA key :
        IF HasKey(attrs, key) THEN Return(attrs[key])
        ELSE ExceptKeyError(globals_lookup("_dataset_pretty_names", name), name))

\* _get_pretty_name, second try block: version and version_pretty_name
VersionOf(attrs, number) ==
    With("val_dc_version" \o str(number - 1), LAMBDA kv :
    With("val_dc_version_pretty_name" \o str(number - 1), LAMBDA kvp :
        IF ~HasKey(attrs, kv)
        THEN Return([version |-> "unknown", version_pretty_name |-> "unknown version"])
        ELSE With(attrs[kv], LAMBDA version :
             Then(IF HasKey(attrs, kvp) THEN Return(attrs[kvp])
                  ELSE ExceptKeyError(
                           globals_lookup("_dataset_version_pretty_names", version),
                           version),
                  LAMBDA vpn :
                      Return([version |-> version, version_pretty_name |-> vpn])))))

\* _get_pretty_name(ds, name, number): pretty_name, version, version_pretty_name
_get_pretty_name(attrs, name, number) ==
    Then(PrettyNameOf(attrs, name, number), LAMBDA p :
    Then(VersionOf(attrs, number), LAMBDA v :
        Return([pretty_name |-> p,
                version |-> v.version,
                version_pretty_name |-> v.version_pretty_name])))

NotContainedMsg(var) == "The given var '" \o var \o "' is not contained in the dataset."

NoMatchMsg(var) == "The given var '" \o var \o "' does not match the regex pattern."

\* ParseVar with the test var == 'n_obs' of the except branch left out: every
\* name the pattern rejects gets the n_obs defaults
ParseVar_NoSentinelTest(var) ==
    IF Matches(var)
    THEN With(Groups(var), LAMBDA g :
             Return([metric |-> g[1], ref_no |-> int(g[2]), ref |-> g[3],
                     ds_no |-> int(g[4]), ds |-> g[5]]))
    ELSE Return([metric |-> "n_obs", ref_no |-> 1, ref |-> "GLDAS",
                 ds_no |-> 1, ds |-> "GLDAS"])

\* _get_meta, "parse var": the five fields read from the name
ParseVar(var) ==
    IF Matches(var)
    THEN With(Groups(var), LAMBDA g :
             Return([metric |-> g[1], ref_no |-> int(g[2]), ref |-> g[3],
                     ds_no |-> int(g[4]), ds |-> g[5]]))
    ELSE IF var = "n_obs"
    THEN Return([metric |-> "n_obs", ref_no |-> 1, ref |-> "GLDAS",
                 ds_no |-> 1, ds |-> "GLDAS"])
    ELSE Raise("Exception", NoMatchMsg(var), var)

\* _get_meta without the test "if not var in ds.data_vars": the name is parsed
\* whether or not the dataset holds it
_get_meta_NoMembershipTest(d, var) ==
    Then(ParseVar(var), LAMBDA m :
    Then(_get_pretty_name(d.attrs, m.ds, m.ds_no), LAMBDA dn :
    Then(_get_pretty_name(d.attrs, m.ref, m.ref_no), LAMBDA rn :
        Return([metric |-> m.metric,
                ref_no |-> m.ref_no,
                ref |-> m.ref,
                ds_no |-> m.ds_no,
                ds |-> m.ds,
                ds_pretty_name |-> dn.pretty_name,
                ds_version |-> dn.version,
                ds_version_pretty_name |-> dn.version_pretty_name,
                ref_pretty_name |-> rn.pretty_name,
                ref_version |-> rn.version,
                ref_version_pretty_name |-> rn.version_pretty_name]))))

\* _get_meta(ds, var)
_get_meta(d, var) ==
    IF var \notin Range(d.data_vars)
    THEN Raise("Exception", NotContainedMsg(var), var)
    ELSE Then(ParseVar(var), LAMBDA m :
         Then(_get_pretty_name(d.attrs, m.ds, m.ds_no), LAMBDA dn :
         Then(_get_pretty_name(d.attrs, m.ref, m.ref_no), LAMBDA rn :
             Return([metric |-> m.metric,
                     ref_no |-> m.ref_no,
                     ref |-> m.ref,
                     ds_no |-> m.ds_no,
                     ds |-> m.ds,
                     ds_pretty_name |-> dn.pretty_name,
                     ds_version |-> dn.version,
                     ds_version_pretty_name |-> dn.version_pretty_name,
                     ref_pretty_name |-> rn.pretty_name,
                     ref_version |-> rn.version,
                     ref_version_pretty_name |-> rn.version_pretty_name]))))

-----------------------------------------------------------------------------
(* ncplot._get_varmeta, _get_metrics, get_metrics.                         *)

\* an optional list argument: None, or a list
NoList == [given |-> FALSE, list |-> <<>>]

SomeList(l) == [given |-> TRUE, list |-> l]

\* "not variables": None and the empty list are both falsy
Falsy(variables) == ~variables.given \/ variables.list = <<>>

\* (*globals.index_names, 'gpi')
IndexAndGpi == index_names \o <<"gpi">>

\* the loop over (lat, lon, gpi) with "except ValueError" around the whole
\* loop instead of around one remove: the first absent name ends the loop
RECURSIVE RemoveIndexFrom_StopAtFirstAbsent(_, _, _)
RemoveIndexFrom_StopAtFirstAbsent(l, w, i) ==
    IF i > Len(IndexAndGpi) THEN [list |-> l, warnings |-> w]
    ELSE IF IndexAndGpi[i] \in Range(l)
    THEN RemoveIndexFrom_StopAtFirstAbsent(ListRemove(l, IndexAndGpi[i]), w, i + 1)
    ELSE [list |-> l, warnings |-> Append(w, IndexAndGpi[i] \o " is not in variables.")]

\* the loop over (lat, lon, gpi), from its i-th name on: what is left of the
\* list and the warnings raised
RECURSIVE RemoveIndexFrom(_, _, _)
RemoveIndexFrom(l, w, i) ==
    IF i > Len(IndexAndGpi) THEN [list |-> l, warnings |-> w]
    ELSE IF IndexAndGpi[i] \in Range(l)
    THEN RemoveIndexFrom(ListRemove(l, IndexAndGpi[i]), w, i + 1)
    ELSE RemoveIndexFrom(l, Append(w, IndexAndGpi[i] \o " is not in variables."), i + 1)

\* the default variable list of _get_varmeta and the warnings raised for it
DefaultVariables(d) == RemoveIndexFrom(d.data_vars, <<>>, 1)

\* the list _get_varmeta iterates
VarList(d, variables) ==
    IF Falsy(variables) THEN DefaultVariables(d).list ELSE variables.list

\* the warnings _get_varmeta raises
VarWarnings(d, variables) ==
    IF Falsy(variables) THEN DefaultVariables(d).warnings ELSE <<>>

\* the keys of a dict built from the list l, in insertion order
RECURSIVE DictKeys(_)
DictKeys(l) ==
    IF l = <<>> THEN <<>>
    ELSE With(DictKeys(SubSeq(l, 1, Len(l) - 1)), LAMBDA k :
             IF l[Len(l)] \in Range(k) THEN k ELSE Append(k, l[Len(l)]))

\* {var: _get_meta(ds, var) for var in variables}, from the i-th name on, item
\* holding the entries made so far: the first raise ends it
RECURSIVE DictOfMeta(_, _, _, _)
DictOfMeta(d, l, i, item) ==
    IF i > Len(l) THEN Return([keys |-> DictKeys(l), item |-> item])
    ELSE Then(_get_meta(d, l[i]), LAMBDA m :
             DictOfMeta(d, l, i + 1,
                 [v \in DOMAIN item \cup {l[i]} |-> IF v = l[i] THEN m ELSE item[v]]))

\* _get_varmeta(ds, variables)
_get_varmeta(d, variables) == DictOfMeta(d, VarList(d, variables), 1, <<>>)

\* the metrics of a varmeta, each once, in order of first appearance
RECURSIVE MetricsOf(_, _)
MetricsOf(varmeta, n) ==
    IF n = 0 THEN <<>>
    ELSE With(MetricsOf(varmeta, n - 1), LAMBDA ms :
         With(varmeta.item[varmeta.keys[n]].metric, LAMBDA m :
             IF m \in Range(ms) THEN ms ELSE Append(ms, m)))

\* _get_metrics(ds)
_get_metrics(d) ==
    Then(_get_varmeta(d, NoList), LAMBDA varmeta :
        Return(MetricsOf(varmeta, Len(varmeta.keys))))

\* the try block of get_metrics: remove('tau'), then remove('p_tau'); the
\* first ValueError leaves the block and is swallowed
RemoveBad(metrics) ==
    IF "tau" \notin Range(metrics) THEN metrics
    ELSE With(ListRemove(metrics, "tau"), LAMBDA m1 :
             IF "p_tau" \notin Range(m1) THEN m1 ELSE ListRemove(m1, "p_tau"))

\* get_metrics(filepath)
get_metrics(d) ==
    Then(_get_metrics(d), LAMBDA metrics : Return(RemoveBad(metrics)))

-----------------------------------------------------------------------------
(* The datasets and arguments the calls are tried on.                      *)

\* names a dataset may hold as data variables, besides lat, lon and gpi
VarPool ==
    {"n_obs",
     "R_between_1-ISMN_2-SMAP",
     "p_R_between_02-C3S_1-ISMN",
     "rmsd_between_3-ISMN_1-C3S",
     "tau_between_1-ISMN_2-SMAP",
     "p_tau_between_1-ISMN_2-SMAP",
     "R_between_1-ISMN_2-SMAP extra",
     "not_a_valid_name"}

\* the index fields a dataset holds, in the order it holds them
IndexPrefixes == {<<"lat", "lon", "gpi">>, <<"lon", "gpi">>}

\* lists of at most n different names of the pool
RECURSIVE DistinctSeqs(_, _)
DistinctSeqs(pool, n) ==
    IF n = 0 THEN {<<>>}
    ELSE With(DistinctSeqs(pool, n - 1), LAMBDA shorter :
             shorter \cup UNION {{Append(l, x) : x \in pool \ Range(l)} : l \in shorter})

\* lists of at most n names of the pool, repeats allowed
RECURSIVE ListsUpTo(_, _)
ListsUpTo(pool, n) ==
    IF n = 0 THEN {<<>>}
    ELSE With(ListsUpTo(pool, n - 1), LAMBDA shorter :
             shorter \cup {Append(l, x) : l \in shorter, x \in pool})

AttrKinds == {"val_dc_pretty_name", "val_dc_version", "val_dc_version_pretty_name"}

\* the dataset positions (number - 1) whose attributes a file may carry
AttrIdx == {0, 1}

AttrKeys == {k \o str(i) : k \in AttrKinds, i \in AttrIdx}

\* the value a file gives to an attribute it carries
AttrValue(key) ==
    With(CHOOSE p \in AttrKinds \X AttrIdx : p[1] \o str(p[2]) = key, LAMBDA ki :
        CASE ki[1] = "val_dc_pretty_name" -> "Dataset " \o str(ki[2])
          [] ki[1] = "val_dc_version" -> "v" \o str(ki[2])
          [] OTHER -> "Version " \o str(ki[2]))

\* the global attributes of a file: any subset of the keys
AttrChoices == {[k \in K |-> AttrValue(k)] : K \in SUBSET AttrKeys}

\* the files whose attributes are one of the dicts of A
DatasetsWith(A) ==
    {[data_vars |-> p \o l, attrs |-> a] :
        p \in IndexPrefixes, l \in DistinctSeqs(VarPool, MaxVars), a \in A}

Datasets == DatasetsWith(AttrChoices)

\* names _get_meta is called with
CallNames == VarPool \cup {"lat", "R_between_1-ISMN_2-SMAP extra"}

\* names the lists passed to _get_varmeta are made of
ReqPool == {"n_obs", "R_between_1-ISMN_2-SMAP", "not_a_valid_name"}

-----------------------------------------------------------------------------
(* The state machine: a file is opened, then one call is made on it.       *)

NoCall == [op |-> "none"]

NoRet == [kind |-> "none"]

NoLoc == [metrics |-> <<>>]

\* a file of the set D has been opened and no call made
InitOn(D) ==
    /\ ds \in D
    /\ pc = "idle"
    /\ call = NoCall
    /\ ret = NoRet
    /\ warned = <<>>
    /\ figs = <<>>
    /\ nfig = 0
    /\ log = <<>>
    /\ loc = NoLoc

Init == InitOn(Datasets)

\* get_meta(filepath, var)
Call_get_meta(var) ==
    /\ pc = "idle"
    /\ pc' = "returned"
    /\ call' = [op |-> "get_meta", var |-> var]
    /\ ret' = _get_meta(ds, var)
    /\ UNCHANGED <<ds, warned, figs, nfig, log, loc>>

\* get_varmeta(filepath, variables)
Call_get_varmeta(variables) ==
    /\ pc = "idle"
    /\ pc' = "returned"
    /\ call' = [op |-> "get_varmeta", variables |-> variables]
    /\ ret' = _get_varmeta(ds, variables)
    /\ warned' = warned \o VarWarnings(ds, variables)
    /\ UNCHANGED <<ds, figs, nfig, log, loc>>

\* get_metrics(filepath)
Call_get_metrics ==
    /\ pc = "idle"
    /\ pc' = "returned"
    /\ call' = [op |-> "get_metrics"]
    /\ ret' = get_metrics(ds)
    /\ warned' = warned \o VarWarnings(ds, NoList)
    /\ UNCHANGED <<ds, figs, nfig, log, loc>>

Next ==
    \/ \E var \in CallNames : Call_get_meta(var)
    \/ \E l \in ListsUpTo(ReqPool, MaxReq) : Call_get_varmeta(SomeList(l))
    \/ Call_get_varmeta(NoList)
    \/ Call_get_metrics

Spec == Init /\ [][Next]_vars

-----------------------------------------------------------------------------
(* ncplot._get_var, _load_data and load.                                   *)

UpperCase == "ABCDEFGHIJKLMNOPQRSTUVWXYZ"

LowerCase == "abcdefghijklmnopqrstuvwxyz"

\* re.I: letters compare by their lower case
LowerChar(c) ==
    IF \E i \in 1..Len(UpperCase) : Char(UpperCase, i) = c
    THEN Char(LowerCase, CHOOSE i \in 1..Len(UpperCase) : Char(UpperCase, i) = c)
    ELSE c

RECURSIVE Lower(_)
Lower(s) ==
    IF Len(s) = 0 THEN ""
    ELSE Lower(SubSeq(s, 1, Len(s) - 1)) \o LowerChar(Char(s, Len(s)))

\* re.search(r'^{}_between'.format(metric), var, re.I), for a metric without
\* regex metacharacters (letters, digits, "_", "-" and " " stand for themselves)
SearchMetric(metric, var) == LitAt(Lower(var), 1, Lower(metric \o "_between"))

RECURSIVE Filter(_, _)
Filter(l, metric) ==
    IF l = <<>> THEN <<>>
    ELSE With(Filter(SubSeq(l, 1, Len(l) - 1), metric), LAMBDA front :
             IF SearchMetric(metric, l[Len(l)]) THEN Append(front, l[Len(l)]) ELSE front)

\* _get_var(ds, metric)
_get_var(d, metric) ==
    IF metric = "n_obs" THEN <<metric>> ELSE Filter(d.data_vars, metric)

\* sep.join(l)
RECURSIVE Join(_, _)
Join(sep, l) ==
    IF l = <<>> THEN ""
    ELSE IF Len(l) = 1 THEN l[1]
    ELSE Join(sep, SubSeq(l, 1, Len(l) - 1)) \o sep \o l[Len(l)]

\* _load_data(ds, variables, extent, index_names): the columns of the frame;
\* ds[names] raises KeyError for a name the dataset does not hold (the text
\* xarray gives the KeyError is left out of the message)
_load_data(d, variables) ==
    IF Range(index_names \o variables) \subseteq Range(d.data_vars)
    THEN Return(index_names \o variables)
    ELSE Raise("Exception",
               "The given variabes " \o Join(", ", variables)
                   \o " do not match the names in the input data.", variables)

\* load(filepath, metric, extent): df and varmeta
load(d, metric) ==
    With(_get_var(d, metric), LAMBDA variables :
    Then(_get_varmeta(d, SomeList(variables)), LAMBDA varmeta :
    Then(_load_data(d, variables), LAMBDA df :
        Return([df |-> df, varmeta |-> varmeta]))))

-----------------------------------------------------------------------------
(* matplotlib.pyplot as the plot drivers use it: the open figures form a   *)
(* stack whose top is the current figure; savefig saves the current        *)
(* figure and, when none is open, first opens an empty one; close closes   *)
(* the current figure, if any.                                             *)

\* longest list of file types passed as out_type
MaxTypes == 2

TypePool == {"png", "svg"}

Figure(id, by, of) == [id |-> id, by |-> by, of |-> of]

Event(ev, fig, fname) == [ev |-> ev, fig |-> fig, fname |-> fname]

\* the figure plt.savefig saves
CurrentFigure == IF figs = <<>> THEN Figure(nfig + 1, "savefig", "") ELSE figs[Len(figs)]

\* dfplot.boxplot, dfplot.mapplot, dfplot.scatterplot: a new figure, now current
NewFigure(by, of) ==
    /\ figs' = Append(figs, Figure(nfig + 1, by, of))
    /\ nfig' = nfig + 1
    /\ log' = Append(log, Event("figure", Figure(nfig + 1, by, of), ""))

\* plt.savefig(fname, dpi='figure') followed by plt.close()
SaveThenClose(fname) ==
    /\ log' = log \o (IF figs = <<>> THEN <<Event("figure", CurrentFigure, "")>> ELSE <<>>)
                  \o <<Event("savefig", CurrentFigure, fname),
                       Event("close", CurrentFigure, "")>>
    /\ figs' = SubSeq(figs, 1, Len(figs) - 1)
    /\ nfig' = IF figs = <<>> THEN nfig + 1 ELSE nfig

\* os.path.join(a, b) on POSIX
PathJoin(a, b) ==
    IF LitAt(b, 1, "/") THEN b
    ELSE IF Len(a) = 0 \/ LitAt(a, Len(a), "/") THEN a \o b
    ELSE a \o "/" \o b

\* '{}'.format(x)
Format(x) == IF x = PyNone THEN "None" ELSE x

-----------------------------------------------------------------------------
(* ncplot.plot_all, one step per loop iteration; ncplot.boxplot and         *)
(* ncplot.mapplot.                                                         *)

\* an out_type argument: a list, or a single value (a str or None)
OneType(x) == [is_list |-> FALSE, list |-> <<>>, value |-> x]

TypeList(l) == [is_list |-> TRUE, list |-> l, value |-> PyNone]

OutTypes ==
    {OneType(PyNone), OneType("png")} \cup {TypeList(l) : l \in ListsUpTo(TypePool, MaxTypes)}

OutDirs == {PyNone, "out"}

MetricsArgs == {NoList, SomeList(<<"R">>)}

\* "if type(out_type) is not list: out_type = [out_type]"
AsList(out_type) == IF out_type.is_list THEN out_type.list ELSE <<out_type.value>>

\* the scatter plot is taken when ds or ref is a scattered dataset
PlotKind(meta) ==
    IF meta.ds \in Range(scattered_datasets) \/ meta.ref \in Range(scattered_datasets)
    THEN "scatterplot" ELSE "mapplot"

\* plot_all up to the loop over the metrics (m is what get_metrics gives)
PlotAll_Start(metrics, out_dir, out_type) ==
    /\ pc = "idle"
    /\ call' = [op |-> "plot_all", metrics |-> metrics, out_dir |-> out_dir,
                out_type |-> out_type]
    /\ warned' = warned \o VarWarnings(ds, NoList)
    /\ \E m \in {get_metrics(ds)} :
           IF m.kind = "raise"
           THEN /\ pc' = "raised"
                /\ ret' = m
                /\ loc' = loc
           ELSE /\ pc' = "metric"
                /\ ret' = ret
                /\ loc' = [out_type |-> AsList(out_type), out_dir |-> out_dir,
                           metrics |-> m.value, mi |-> 1, metric |-> "",
                           varmeta |-> [keys |-> <<>>, item |-> <<>>],
                           curr_dir |-> "", out_name |-> "", vi |-> 1, ti |-> 1]
    /\ UNCHANGED <<ds, figs, nfig, log>>

\* "for metric in metrics": load, make the directory, draw the boxplot (l is
\* what load gives)
PlotAll_Metric ==
    /\ pc = "metric"
    /\ IF loc.mi > Len(loc.metrics)
       THEN /\ pc' = "returned"
            /\ ret' = Return(PyNone)
            /\ UNCHANGED <<warned, figs, nfig, log, loc>>
       ELSE \E metric \in {loc.metrics[loc.mi]} : \E l \in {load(ds, metric)} :
                /\ warned' = warned \o VarWarnings(ds, SomeList(_get_var(ds, metric)))
                /\ IF l.kind = "raise"
                   THEN /\ pc' = "raised"
                        /\ ret' = l
                        /\ UNCHANGED <<figs, nfig, log, loc>>
                   ELSE IF loc.out_dir = PyNone
                   THEN /\ pc' = "raised"
                        /\ ret' = Raise("TypeError", "expected str, bytes or os.PathLike object, not NoneType", PyNone)
                        /\ UNCHANGED <<figs, nfig, log, loc>>
                   ELSE /\ pc' = "box_save"
                        /\ ret' = ret
                        /\ NewFigure("boxplot", metric)
                        /\ loc' = [loc EXCEPT
                                     !.metric = metric,
                                     !.varmeta = l.value.varmeta,
                                     !.curr_dir = PathJoin(loc.out_dir, metric),
                                     !.out_name = "boxplot_" \o Join("__", l.value.varmeta.keys),
                                     !.ti = 1]
    /\ UNCHANGED <<ds, call>>

\* "for ending in out_type" after the boxplot: savefig, close
PlotAll_BoxSave ==
    /\ pc = "box_save"
    /\ IF loc.ti > Len(loc.out_type)
       THEN /\ pc' = "map"
            /\ loc' = [loc EXCEPT !.vi = 1]
            /\ UNCHANGED <<figs, nfig, log>>
       ELSE /\ pc' = pc
            /\ SaveThenClose(PathJoin(loc.curr_dir,
                   loc.out_name \o "." \o Format(loc.out_type[loc.ti])))
            /\ loc' = [loc EXCEPT !.ti = loc.ti + 1]
    /\ UNCHANGED <<ds, call, ret, warned>>

\* "for var in varmeta": draw the map or scatter plot
PlotAll_Map ==
    /\ pc = "map"
    /\ IF loc.vi > Len(loc.varmeta.keys)
       THEN /\ pc' = "metric"
            /\ loc' = [loc EXCEPT !.mi = loc.mi + 1]
            /\ UNCHANGED <<figs, nfig, log>>
       ELSE LET var == loc.varmeta.keys[loc.vi]
            IN  /\ pc' = "map_save"
                /\ NewFigure(PlotKind(loc.varmeta.item[var]), var)
                /\ loc' = [loc EXCEPT !.out_name = "mapplot_" \o var, !.ti = 1]
    /\ UNCHANGED <<ds, call, ret, warned>>

\* "for ending in out_type" after the map plot: savefig, close
PlotAll_MapSave ==
    /\ pc = "map_save"
    /\ IF loc.ti > Len(loc.out_type)
       THEN /\ pc' = "map"
            /\ loc' = [loc EXCEPT !.vi = loc.vi + 1]
            /\ UNCHANGED <<figs, nfig, log>>
       ELSE /\ pc' = pc
            /\ SaveThenClose(PathJoin(loc.curr_dir,
                   loc.out_name \o "." \o Format(loc.out_type[loc.ti])))
            /\ loc' = [loc EXCEPT !.ti = loc.ti + 1]
    /\ UNCHANGED <<ds, call, ret, warned>>

\* ncplot.boxplot and ncplot.mapplot, each one step

\* "if out_type": None, '' and [] are falsy
Truthy(out_type) ==
    IF out_type.is_list THEN out_type.list # <<>> ELSE out_type.value \notin {PyNone, ""}

\* os.path.dirname(__file__)
ModuleDir == "qa4smreader"

OutNames == {PyNone, "fig", "fig.pdf"}

\* metrics boxplot is called with
BoxMetrics == {"R", "n_obs"}

\* variables mapplot is called with
MapVars == {"n_obs", "R_between_1-ISMN_2-SMAP"}

\* "for ending in out_type: plt.savefig('{}.{}'.format(filename, ending))"
RECURSIVE SaveEach(_, _, _)
SaveEach(fig, filename, endings) ==
    IF endings = <<>> THEN <<>>
    ELSE <<Event("savefig", fig, filename \o "." \o Format(Head(endings)))>>
             \o SaveEach(fig, filename, Tail(endings))

\* what the call does after drawing: the pyplot events, whether the figure is
\* left open, and how the call ends
Outcome(events, open, r) == [events |-> events, open |-> open, ret |-> r]

\* the branch "if out_type" of boxplot and mapplot, up to the last savefig
SaveTyped(fig, out_dir, out_name, default_name, out_type) ==
    SaveEach(fig,
             PathJoin(IF out_dir \in {PyNone, ""} THEN ModuleDir ELSE out_dir,
                      IF out_name \in {PyNone, ""} THEN default_name ELSE out_name),
             AsList(out_type))

\* out_name with '.png' appended when it holds no '.'
WithPng(out_name) == IF Contains(out_name, ".") THEN out_name ELSE out_name \o ".png"

\* os.path.exists(None) raises TypeError
ExistsNone ==
    Raise("TypeError", "stat: path should be string, bytes, os.PathLike or integer, not NoneType",
          PyNone)

\* "save figure" of boxplot
BoxplotSave(fig, variables, out_dir, out_name, out_type) ==
    IF Truthy(out_type)
    THEN Outcome(SaveTyped(fig, out_dir, out_name,
                           "boxplot_" \o Join("__", variables), out_type)
                     \o <<Event("close", fig, "")>>,
                 FALSE, Return(PyNone))
    ELSE IF out_name \notin {PyNone, ""}
    THEN IF out_dir = PyNone THEN Outcome(<<>>, TRUE, ExistsNone)
         ELSE Outcome(<<Event("savefig", fig, PathJoin(out_dir, WithPng(out_name))),
                        Event("close", fig, "")>>,
                      FALSE, Return(PyNone))
    ELSE Outcome(<<>>, TRUE, Return(fig))

\* "save figure" of mapplot
MapplotSave(fig, var, out_dir, out_name, out_type) ==
    IF Truthy(out_type)
    THEN Outcome(SaveTyped(fig, out_dir, out_name, "mapplot_" \o var, out_type)
                     \o <<Event("close", fig, "")>>,
                 FALSE, Return(PyNone))
    ELSE IF out_name \notin {PyNone, ""}
    THEN IF out_dir = PyNone THEN Outcome(<<>>, TRUE, ExistsNone)
         ELSE Outcome(<<Event("savefig", fig, PathJoin(out_dir, WithPng(out_name))),
                        Event("close", fig, "")>>,
                      FALSE, Return(PyNone))
    ELSE Outcome(<<Event("show", fig, ""), Event("close", fig, "")>>, FALSE, Return(PyNone))

\* the figure fig is drawn and the call ends as o says
DrawAndEnd(fig, o) ==
    /\ pc' = IF o.ret.kind = "raise" THEN "raised" ELSE "returned"
    /\ ret' = o.ret
    /\ log' = log \o <<Event("figure", fig, "")>> \o o.events
    /\ figs' = IF o.open THEN Append(figs, fig) ELSE figs
    /\ nfig' = nfig + 1

\* the call ends with the exception r before anything is drawn
EndRaised(r) ==
    /\ pc' = "raised"
    /\ ret' = r
    /\ UNCHANGED <<figs, nfig, log>>

\* boxplot(filepath, metric, out_dir=..., out_name=..., out_type=...) for a
\* metric given as a str
Call_boxplot(metric, out_dir, out_name, out_type) ==
    /\ pc = "idle"
    /\ call' = [op |-> "boxplot", metric |-> metric, out_dir |-> out_dir,
                out_name |-> out_name, out_type |-> out_type]
    /\ \E variables \in {_get_var(ds, metric)} :
           /\ warned' = warned \o VarWarnings(ds, SomeList(variables))
           /\ \E l \in {Then(_get_varmeta(ds, SomeList(variables)), LAMBDA varmeta :
                             _load_data(ds, variables))} :
                  IF l.kind = "raise" THEN EndRaised(l)
                  ELSE \E fig \in {Figure(nfig + 1, "boxplot", metric)} :
                           DrawAndEnd(fig, BoxplotSave(fig, variables, out_dir, out_name,
                                                       out_type))
    /\ UNCHANGED <<ds, loc>>

\* mapplot(filepath, var, out_dir=..., out_name=..., out_type=...) for a var
\* given as a str
Call_mapplot(var, out_dir, out_name, out_type) ==
    /\ pc = "idle"
    /\ call' = [op |-> "mapplot", var |-> var, out_dir |-> out_dir,
                out_name |-> out_name, out_type |-> out_type]
    /\ \E l \in {Then(_get_meta(ds, var), LAMBDA meta :
                      Then(_load_data(ds, <<var>>), LAMBDA df : Return(meta)))} :
           IF l.kind = "raise" THEN EndRaised(l)
           ELSE \E fig \in {Figure(nfig + 1, PlotKind(l.value), var)} :
                    DrawAndEnd(fig, MapplotSave(fig, var, out_dir, out_name, out_type))
    /\ UNCHANGED <<ds, warned, loc>>

\* metrics get_var and load are called with
LoadMetrics == {"R", "r", "p", "tau", "n_obs"}

\* get_var(filepath, metric)
Call_get_var(metric) ==
    /\ pc = "idle"
    /\ pc' = "returned"
    /\ call' = [op |-> "get_var", metric |-> metric]
    /\ ret' = Return(_get_var(ds, metric))
    /\ UNCHANGED <<ds, warned, figs, nfig, log, loc>>

\* load(filepath, metric)
Call_load(metric) ==
    /\ pc = "idle"
    /\ call' = [op |-> "load", metric |-> metric]
    /\ warned' = warned \o VarWarnings(ds, SomeList(_get_var(ds, metric)))
    /\ \E l \in {load(ds, metric)} :
           /\ pc' = IF l.kind = "raise" THEN "raised" ELSE "returned"
           /\ ret' = l
    /\ UNCHANGED <<ds, figs, nfig, log, loc>>

\* plot.py: the names the module binds (its imports and its functions).  A
\* read of any other global name raises NameError.
plot_dir ==
    {"os", "re", "sns", "plt", "globals", "get_value_range", "init_plot",
     "get_plot_extent", "geotraj_to_geo2d", "_make_cbar", "_make_title",
     "style_map", "make_watermark", "_get_globmeta", "get_metrics",
     "mapplot", "boxplot", "plot_all"}

\* the read of a global name in plot.py
plot_name(name) ==
    IF name \in plot_dir THEN Return(name)
    ELSE Raise("NameError", "name '" \o name \o "' is not defined", name)

\* the path plot.plot_all is called with, and os.getcwd()
FilePath == "data/file.nc"

Cwd == "/home/user"

\* os.path.basename(s): what follows the last "/"
RECURSIVE Basename(_)
Basename(s) ==
    IF Len(s) = 0 \/ Char(s, Len(s)) = "/" THEN ""
    ELSE Basename(SubSeq(s, 1, Len(s) - 1)) \o Char(s, Len(s))

\* plot.plot_all up to the loop over the metrics; get_metrics is the one of
\* ncplot
PlotPy_Start(metrics, out_dir, out_type) ==
    /\ pc = "idle"
    /\ call' = [op |-> "plot.plot_all", metrics |-> metrics, out_dir |-> out_dir,
                out_type |-> out_type]
    /\ warned' = IF Falsy(metrics) THEN warned \o VarWarnings(ds, NoList) ELSE warned
    /\ \E m \in {IF Falsy(metrics) THEN get_metrics(ds) ELSE Return(metrics.list)} :
           IF m.kind = "raise"
           THEN /\ pc' = "raised"
                /\ ret' = m
                /\ loc' = loc
           ELSE /\ pc' = "plot_metric"
                /\ ret' = ret
                /\ loc' = [fnames |-> <<>>,
                           out_dir |-> IF out_dir \in {PyNone, ""}
                                       THEN PathJoin(Cwd, Basename(FilePath))
                                       ELSE out_dir,
                           out_type |-> out_type,
                           metrics |-> m.value, mi |-> 1]
    /\ UNCHANGED <<ds, figs, nfig, log>>

\* "for metric in metrics" of plot.plot_all: the loop ends and fnames is
\* returned, or the body begins with the read of the name load; the
\* statements after it are reached only if that name is bound
PlotPy_Metric ==
    /\ pc = "plot_metric"
    /\ IF loc.mi > Len(loc.metrics)
       THEN /\ pc' = "returned"
            /\ ret' = Return(loc.fnames)
       ELSE /\ plot_name("load").kind = "raise"
            /\ pc' = "raised"
            /\ ret' = plot_name("load")
    /\ UNCHANGED <<ds, call, warned, figs, nfig, log, loc>>

\* the files plot_all is tried on: no attribute, the pretty names only, or all
PlotDatasets ==
    DatasetsWith({a \in AttrChoices :
        DOMAIN a \in {{}, {"val_dc_pretty_name" \o str(i) : i \in AttrIdx}, AttrKeys}})

InitPlot == InitOn(PlotDatasets)

NextPlot ==
    \/ \E m \in MetricsArgs, od \in OutDirs, ot \in OutTypes : PlotAll_Start(m, od, ot)
    \/ PlotAll_Metric
    \/ PlotAll_BoxSave
    \/ PlotAll_Map
    \/ PlotAll_MapSave
    \/ \E m \in BoxMetrics, od \in OutDirs, on \in OutNames, ot \in OutTypes :
           Call_boxplot(m, od, on, ot)
    \/ \E v \in MapVars, od \in OutDirs, on \in OutNames, ot \in OutTypes :
           Call_mapplot(v, od, on, ot)
    \/ \E m \in LoadMetrics : Call_get_var(m)
    \/ \E m \in LoadMetrics : Call_load(m)
    \/ \E m \in MetricsArgs, od \in OutDirs, ot \in OutTypes : PlotPy_Start(m, od, ot)
    \/ PlotPy_Metric

SpecPlot == InitPlot /\ [][NextPlot]_vars

-----------------------------------------------------------------------------
(* Variable names composed from their five components, as the validation   *)
(* service writes them ('ubRMSD_between_4-ISMN_3-ESA_CCI_SM_combined'),     *)
(* and get_meta called on them.                                            *)

\* metrics: runs of non-digit characters
PartMetrics == {"R", "p_R", "n obs"}

\* dataset numbers: positive integers
PartNumbers == {1, 2, 12}

\* short names: runs of non-whitespace characters
PartNames == {"ISMN", "ESA_CCI_SM_combined", "C3S_2-x", "v2-0"}

Parts ==
    [metric : PartMetrics, ref_no : PartNumbers, ref : PartNames,
     ds_no : PartNumbers, ds : PartNames]

\* the name of the variable that compares the datasets of c by its metric
Compose(c) ==
    c.metric \o "_between_" \o str(c.ref_no) \o "-" \o c.ref
             \o "_" \o str(c.ds_no) \o "-" \o c.ds

\* files that hold one composed variable
ComposedDatasets ==
    {[data_vars |-> <<"lat", "lon", "gpi", Compose(c)>>, attrs |-> a] :
        c \in Parts, a \in AttrChoices}

InitComposed == InitOn(ComposedDatasets)

\* get_meta(filepath, var) for the name composed from c
Call_get_meta_composed(c) ==
    /\ pc = "idle"
    /\ Compose(c) \in Range(ds.data_vars)
    /\ pc' = "returned"
    /\ call' = [op |-> "get_meta", var |-> Compose(c), parts |-> c]
    /\ ret' = _get_meta(ds, Compose(c))
    /\ UNCHANGED <<ds, warned, figs, nfig, log, loc>>

NextComposed == \E c \in Parts : Call_get_meta_composed(c)

SpecComposed == InitComposed /\ [][NextComposed]_vars

-----------------------------------------------------------------------------
(* What the claims speak of.                                               *)

\* a call of get_meta has ended
MetaCallDone == pc = "returned" /\ call.op = "get_meta"

\* the name passed is a data variable of the dataset
VarInDataset == call.var \in Range(ds.data_vars)

\* the name passed is a data variable that is n_obs or matches the pattern
VarDecodable == VarInDataset /\ (Matches(call.var) \/ call.var = "n_obs")

\* the exception raised is the pattern error for the name var
IsParseError(r, var) ==
    /\ r.kind = "raise"
    /\ r.exc = "Exception"
    /\ Contains(r.msg, "does not match the regex pattern")
    /\ Contains(r.msg, "'" \o var \o "'")

MetaFields ==
    {"metric", "ref_no", "ref", "ds_no", "ds",
     "ref_pretty_name", "ref_version", "ref_version_pretty_name",
     "ds_pretty_name", "ds_version", "ds_version_pretty_name"}

\* the pretty name the fallback chain of the docstring gives: the attribute,
\* else the entry of the static table, else the name itself
ChainPrettyName(attrs, name, number) ==
    LET key == "val_dc_pretty_name" \o str(number - 1)
        g   == globals_lookup("_dataset_pretty_names", name)
    IN  IF HasKey(attrs, key) THEN attrs[key]
        ELSE IF g.kind = "return" THEN g.value ELSE name

\* the version pretty name the fallback chain gives for a version found
ChainVersionPrettyName(attrs, version, number) ==
    LET key == "val_dc_version_pretty_name" \o str(number - 1)
        g   == globals_lookup("_dataset_version_pretty_names", version)
    IN  IF HasKey(attrs, key) THEN attrs[key]
        ELSE IF g.kind = "return" THEN g.value ELSE version

HasVersion(number) == HasKey(ds.attrs, "val_dc_version" \o str(number - 1))

HasPrettyName(number) == HasKey(ds.attrs, "val_dc_pretty_name" \o str(number - 1))

\* C1: for a data variable that matches the between pattern, get_meta returns
\* a record whose metric, ref_no, ref, ds_no and ds are the five groups of the
\* match, in that order, the two numbers as integers
C1_GroupsReturned ==
    (MetaCallDone /\ VarInDataset /\ Matches(call.var)) =>
        /\ ret.kind = "return"
        /\ ret.value.metric = Groups(call.var)[1]
        /\ ret.value.ref_no = int(Groups(call.var)[2])
        /\ ret.value.ref = Groups(call.var)[3]
        /\ ret.value.ds_no = int(Groups(call.var)[4])
        /\ ret.value.ds = Groups(call.var)[5]

\* C2 as claimed: for every name that is not n_obs and does not match the
\* pattern, get_meta raises the pattern error carrying the name
C2_ParseErrorForEveryName ==
    (MetaCallDone /\ call.var # "n_obs" /\ ~Matches(call.var)) =>
        IsParseError(ret, call.var)

\* C2 as amended: for every data variable of the dataset that is not n_obs and
\* does not match the pattern, get_meta raises the pattern error carrying the
\* name and returns no record
C2_ParseErrorForDataVariable ==
    (MetaCallDone /\ VarInDataset /\ call.var # "n_obs" /\ ~Matches(call.var)) =>
        IsParseError(ret, call.var)

\* a data variable that the pattern rejects was passed and the error raised
C2_Witness ==
    /\ MetaCallDone
    /\ VarInDataset
    /\ call.var = "not_a_valid_name"
    /\ ret.kind = "raise"
    /\ ret.msg = "The given var 'not_a_valid_name' does not match the regex pattern."

\* C3: for both roles the pretty name returned is the attribute
\* val_dc_pretty_name<number-1> when present, else the static table's entry
\* for the short name, else the short name itself
C3_PrettyNameChain ==
    (MetaCallDone /\ VarDecodable) =>
        /\ ret.kind = "return"
        /\ ret.value.ref_pretty_name =
               ChainPrettyName(ds.attrs, ParseVar(call.var).value.ref,
                               ParseVar(call.var).value.ref_no)
        /\ ret.value.ds_pretty_name =
               ChainPrettyName(ds.attrs, ParseVar(call.var).value.ds,
                               ParseVar(call.var).value.ds_no)

\* C4: for a role whose val_dc_version<number-1> is absent the version
\* returned is "unknown" and its pretty name "unknown version", whatever
\* val_dc_version_pretty_name<number-1> holds
C4_UnknownVersion ==
    (MetaCallDone /\ VarDecodable) =>
        /\ ~HasVersion(ParseVar(call.var).value.ref_no) =>
              /\ ret.kind = "return"
              /\ ret.value.ref_version = "unknown"
              /\ ret.value.ref_version_pretty_name = "unknown version"
        /\ ~HasVersion(ParseVar(call.var).value.ds_no) =>
              /\ ret.kind = "return"
              /\ ret.value.ds_version = "unknown"
              /\ ret.value.ds_version_pretty_name = "unknown version"

\* C5: for a role whose val_dc_version<number-1> is present with value v the
\* version returned is v and its pretty name is the attribute
\* val_dc_version_pretty_name<number-1> when present, else the static table's
\* entry for v, else v (stated for files that carry both pretty names)
C5_VersionPrettyNameChain ==
    (/\ MetaCallDone /\ VarDecodable
     /\ HasPrettyName(ParseVar(call.var).value.ref_no)
     /\ HasPrettyName(ParseVar(call.var).value.ds_no)) =>
        LET m == ParseVar(call.var).value
            vr == ds.attrs["val_dc_version" \o str(m.ref_no - 1)]
            vd == ds.attrs["val_dc_version" \o str(m.ds_no - 1)]
        IN  /\ HasVersion(m.ref_no) =>
                  /\ ret.kind = "return"
                  /\ ret.value.ref_version = vr
                  /\ ret.value.ref_version_pretty_name =
                         ChainVersionPrettyName(ds.attrs, vr, m.ref_no)
            /\ HasVersion(m.ds_no) =>
                  /\ ret.kind = "return"
                  /\ ret.value.ds_version = vd
                  /\ ret.value.ds_version_pretty_name =
                         ChainVersionPrettyName(ds.attrs, vd, m.ds_no)

\* C6: get_meta of the data variable n_obs returns metric n_obs, ref and ds
\* GLDAS, ref_no and ds_no 1, whatever the attributes of the file
C6_NObsFixed ==
    (MetaCallDone /\ VarInDataset /\ call.var = "n_obs") =>
        /\ ret.kind = "return"
        /\ ret.value.metric = "n_obs"
        /\ ret.value.ref = "GLDAS"
        /\ ret.value.ds = "GLDAS"
        /\ ret.value.ref_no = 1
        /\ ret.value.ds_no = 1

\* C7: for a decodable data variable get_meta returns a record holding all
\* eleven fields, whichever attributes and table entries are absent: an
\* absent attribute or entry is never raised as an error
C7_FullyPopulated ==
    (MetaCallDone /\ VarDecodable) =>
        /\ ret.kind = "return"
        /\ DOMAIN ret.value = MetaFields

\* C8: when get_varmeta is given a list and returns, the keys of the mapping
\* are exactly the names of the list and each value is get_meta of its name
C8_ExactlyTheRequested ==
    (/\ pc = "returned" /\ call.op = "get_varmeta"
     /\ call.variables.given /\ ret.kind = "return") =>
        /\ Range(ret.value.keys) = Range(call.variables.list)
        /\ \A v \in Range(call.variables.list) :
               ret.value.item[v] = _get_meta(ds, v).value

\* C9: the list get_metrics returns holds neither tau nor p_tau
C9_BadMetricsRemoved ==
    (pc = "returned" /\ call.op = "get_metrics" /\ ret.kind = "return") =>
        /\ "tau" \notin Range(ret.value)
        /\ "p_tau" \notin Range(ret.value)

\* the figures drawn by boxplot, mapplot or scatterplot so far
Rendered ==
    {log[i].fig : i \in {j \in 1..Len(log) : log[j].ev = "figure" /\ log[j].fig.by # "savefig"}}

\* the file types figure f has been saved as before event i of the log
SavedTypesBefore(f, i) ==
    {t \in Range(call.out_type.list) :
        \E j \in 1..(i - 1) :
            /\ log[j].ev = "savefig"
            /\ log[j].fig = f
            /\ LitAt(log[j].fname, Len(log[j].fname) - Len(Format(t)), "." \o Format(t))}

\* C10: with a list of several file types as out_type, a drawn figure is
\* closed only after it has been saved once for each listed type
C10_SavedForEachTypeBeforeClose ==
    (call.op = "plot_all" /\ call.out_type.is_list /\ Len(call.out_type.list) >= 2) =>
        \A i \in 1..Len(log) :
            (log[i].ev = "close" /\ log[i].fig \in Rendered) =>
                SavedTypesBefore(log[i].fig, i) = Range(call.out_type.list)

\* a call with out_type=None has ended or is under way
OutTypeNone ==
    /\ call.op \in {"plot_all", "boxplot", "mapplot"}
    /\ ~call.out_type.is_list
    /\ call.out_type.value = PyNone

\* C11: in a call of plot_all, boxplot or mapplot with out_type=None,
\* whatever out_name and out_dir are, savefig is never called
C11_NoSaveWhenNone ==
    OutTypeNone => \A i \in 1..Len(log) : log[i].ev # "savefig"

\* the metrics whose boxplot has been drawn so far
BoxplotMetrics ==
    {log[i].fig.of : i \in {j \in 1..Len(log) : log[j].ev = "figure" /\ log[j].fig.by = "boxplot"}}

\* C12: plot_all called with a non-empty metrics argument draws plots for the
\* metrics of the argument only, and by its return for every one of them that
\* the file holds variables of
C12_PlotsTheMetricsGiven ==
    (call.op = "plot_all" /\ call.metrics.given /\ call.metrics.list # <<>>) =>
        /\ BoxplotMetrics \subseteq Range(call.metrics.list)
        /\ (pc = "returned" =>
               \A m \in Range(call.metrics.list) :
                   _get_var(ds, m) # <<>> => m \in BoxplotMetrics)

\* the whole of s has the form (\D+)_between_(\d+)-(\S+)_(\d+)-(\S+)
WholeNameMatches(s) ==
    \E e1 \in 1..Len(s) :
        /\ LitAt(s, e1 + 1, "_between_") /\ NoDigits(s, 1, e1)
        /\ \E e2 \in (e1 + 10)..Len(s) :
               /\ LitAt(s, e2 + 1, "-") /\ AllDigits(s, e1 + 10, e2)
               /\ \E e3 \in (e2 + 2)..Len(s) :
                      /\ LitAt(s, e3 + 1, "_") /\ NoSpaces(s, e2 + 2, e3)
                      /\ \E e4 \in (e3 + 2)..Len(s) :
                             /\ LitAt(s, e4 + 1, "-") /\ AllDigits(s, e3 + 2, e4)
                             /\ e4 + 2 <= Len(s)
                             /\ NoSpaces(s, e4 + 2, Len(s))

\* C13: a data variable other than n_obs is accepted only if its whole name
\* has the form: for a name that only begins with the form get_meta returns no
\* record built from the matching prefix, and the Exception _get_meta raises
\* for it is the pattern error
C13_WholeNameMustMatch ==
    (MetaCallDone /\ VarInDataset /\ call.var # "n_obs" /\ ~WholeNameMatches(call.var)) =>
        /\ ret.kind = "raise"
        /\ ret.exc = "Exception" => IsParseError(ret, call.var)

\* the exception raised is the "not contained" error for the name var
IsNotContainedError(r, var) ==
    /\ r.kind = "raise"
    /\ r.exc = "Exception"
    /\ Contains(r.msg, "is not contained in the dataset")
    /\ Contains(r.msg, "'" \o var \o "'")

\* C14: for every name that is not a data variable of the dataset, get_meta
\* raises the "not contained" error and returns no record, whether the name
\* matches the pattern, is n_obs or is malformed
C14_MembershipCheckedFirst ==
    (MetaCallDone /\ ~VarInDataset) => IsNotContainedError(ret, call.var)

\* a malformed name the dataset does not hold was passed and the "not
\* contained" error raised, not the pattern error
C14_Witness ==
    /\ MetaCallDone
    /\ call.var = "not_a_valid_name"
    /\ "n_obs" \in Range(ds.data_vars)
    /\ ~VarInDataset
    /\ ~Matches(call.var)
    /\ ret.kind = "raise"
    /\ ret.msg = "The given var 'not_a_valid_name' is not contained in the dataset."

\* the list l without the names of S, in the order of l
RECURSIVE Without(_, _)
Without(l, S) ==
    IF l = <<>> THEN <<>>
    ELSE IF Head(l) \in S THEN Without(Tail(l), S)
    ELSE <<Head(l)>> \o Without(Tail(l), S)

\* one warning for each of lat, lon, gpi, from the i-th on, that l lacks
RECURSIVE AbsentWarnings(_, _)
AbsentWarnings(l, i) ==
    IF i > 3 THEN <<>>
    ELSE (IF <<"lat", "lon", "gpi">>[i] \in Range(l) THEN <<>>
          ELSE <<(<<"lat", "lon", "gpi">>[i]) \o " is not in variables.">>)
             \o AbsentWarnings(l, i + 1)

\* a call of get_varmeta without a list has ended
DefaultCallDone == pc = "returned" /\ call.op = "get_varmeta" /\ ~call.variables.given

\* C15: get_varmeta called without a list resolves the data variables of the
\* dataset, in dataset order, without lat, lon and gpi; an absent index name
\* gives a warning, never an error, and the later index names are still removed
C15_DefaultListWithoutIndex ==
    DefaultCallDone =>
        /\ VarList(ds, call.variables) = Without(ds.data_vars, {"lat", "lon", "gpi"})
        /\ warned = AbsentWarnings(ds.data_vars, 1)
        /\ ret.kind = "return" =>
               ret.value.keys = Without(ds.data_vars, {"lat", "lon", "gpi"})
        /\ ret.kind = "raise" =>
               /\ ret.exc # "ValueError"
               /\ ret.arg \notin {"lat", "lon", "gpi"}

\* a file without lat but with lon, gpi and two variables: one warning, lon
\* and gpi removed, both variables resolved in dataset order
C15_Witness ==
    /\ DefaultCallDone
    /\ ds.data_vars = <<"lon", "gpi", "n_obs", "R_between_1-ISMN_2-SMAP">>
    /\ warned = <<"lat is not in variables.">>
    /\ ret.kind = "return"
    /\ ret.value.keys = <<"n_obs", "R_between_1-ISMN_2-SMAP">>

\* the name v is a data variable of the dataset whose metadata has metric m
HoldsWithMetric(v, m) ==
    /\ v \in Range(ds.data_vars)
    /\ ParseVar(v).kind = "return"
    /\ ParseVar(v).value.metric = m

\* C16: every name get_var returns for a metric m is a data variable of the
\* dataset whose metadata has metric m, so that load of m never fails on a
\* name the dataset lacks and returns a varmeta whose entries all have
\* metric m
C16_VariablesOfTheMetric ==
    /\ (pc = "returned" /\ call.op = "get_var") =>
           \A v \in Range(ret.value) : HoldsWithMetric(v, call.metric)
    /\ (call.op = "load" /\ ret.kind = "raise") =>
           ~Contains(ret.msg, "is not contained in the dataset")
    /\ (call.op = "load" /\ ret.kind = "return") =>
           /\ \A v \in Range(ret.value.varmeta.keys) :
                  ret.value.varmeta.item[v].metric = call.metric

\* a call of get_meta on a composed name has ended
ComposedCallDone == MetaCallDone /\ "parts" \in DOMAIN call

\* C17: get_meta of the name composed from a metric without digits, two
\* positive numbers and two short names without whitespace returns exactly
\* these five components
C17_ComposeResolveRoundTrip ==
    ComposedCallDone =>
        /\ ret.kind = "return"
        /\ ret.value.metric = call.parts.metric
        /\ ret.value.ref_no = call.parts.ref_no
        /\ ret.value.ref = call.parts.ref
        /\ ret.value.ds_no = call.parts.ds_no
        /\ ret.value.ds = call.parts.ds

\* the paths passed to savefig so far, in order
RECURSIVE SavedPaths(_)
SavedPaths(l) ==
    IF l = <<>> THEN <<>>
    ELSE SavedPaths(SubSeq(l, 1, Len(l) - 1))
             \o (IF l[Len(l)].ev = "savefig" THEN <<l[Len(l)].fname>> ELSE <<>>)

\* the metrics plot.plot_all is to plot: its argument, or those of the file
MetricsToPlot ==
    IF Falsy(call.metrics) THEN get_metrics(ds).value ELSE call.metrics.list

\* C18: at every step of plot.plot_all the list fnames holds the paths passed
\* to savefig so far, in order; the call ends by returning that list, which
\* then holds a boxplot path for every metric plotted when a file type is given
C18_ReturnsTheSavedFileNames ==
    (call.op = "plot.plot_all" /\ (Falsy(call.metrics) => get_metrics(ds).kind = "return")) =>
        /\ pc = "plot_metric" => loc.fnames = SavedPaths(log)
        /\ pc \in {"returned", "raised"} =>
               /\ ret.kind = "return"
               /\ ret.value = SavedPaths(log)
               /\ Truthy(call.out_type) =>
                      \A m \in Range(MetricsToPlot) :
                          \E i \in 1..Len(ret.value) :
                              Contains(ret.value[i], "/" \o m \o "/boxplot_" \o m)

====
